---- MODULE Spec2Model ----
(***************************************************************************)
(* CV-Mailer: the three sending endpoints of app.py (batch, single, test)  *)
(* and the helpers of code_sender.py they call, as one state machine.      *)
(*                                                                         *)
(* One behaviour is one HTTP call.  Strings are sequences of characters,   *)
(* so that str.strip() and base64.b64decode() are computed, not assumed.   *)
(* The relay (smtplib.SMTP) is the environment: each of its operations     *)
(* succeeds or raises, chosen nondeterministically, and every operation    *)
(* performed on it is appended to the history variable `events`.           *)
(***************************************************************************)
EXTENDS Integers, Sequences, FiniteSets, TLC

VARIABLES
    endpoint,          \* which route handles the call
    data,              \* request.get_json()
    template,          \* the file at TEMPLATE_PATH
    pc,                \* position of the handler
    smtp,              \* the smtplib.SMTP object of the call
    pdf_data,          \* base64.b64decode(pdf_file_base64)
    results,           \* send_emails: results
    successful_sends,  \* send_emails: successful_sends
    failed_sends,      \* send_emails: failed_sends
    idx,               \* send_emails: position of `for recipient in recipients`
    exc,               \* exception propagating out of the `with` body
    ret,               \* value of the `return` executed inside the `with` body
    response,          \* what the handler returned to Flask
    events             \* history: operations performed on the relay, and sleeps

vars == <<endpoint, data, template, pc, smtp, pdf_data, results,
          successful_sends, failed_sends, idx, exc, ret, response, events>>

(***************************************************************************)
(* Bounds                                                                  *)
(***************************************************************************)
\* The longest recipients list of a batch request.
MaxRecipients == 3

(***************************************************************************)
(* Strings                                                                 *)
(***************************************************************************)
RECURSIVE LStrip(_)
LStrip(s) == IF s # <<>> /\ Head(s) = " " THEN LStrip(Tail(s)) ELSE s

RECURSIVE RStrip(_)
RStrip(s) ==
    IF s # <<>> /\ s[Len(s)] = " " THEN RStrip(SubSeq(s, 1, Len(s) - 1)) ELSE s

\* str.strip()
Strip(s) == RStrip(LStrip(s))

\* A JSON value of a recipient record: a string, or null.
Str(s) == [type |-> "str", val |-> s]

Null == [type |-> "null", val |-> <<>>]

(***************************************************************************)
(* base64.b64decode(s) with validate=False, as binascii.a2b_base64 does    *)
(* it.  Characters are classes: "A" a character of the base64 alphabet,    *)
(* "=" the pad, any other (here "!" and " ") a character outside the       *)
(* alphabet.  The result is the number of bytes decoded, or an error.      *)
(***************************************************************************)
B64Alphabet == {"A"}

RECURSIVE A2B(_, _, _, _)
A2B(s, quad_pos, pads, n) ==
    IF s = <<>>
    THEN IF quad_pos # 0 THEN [ok |-> FALSE, len |-> 0]
                         ELSE [ok |-> TRUE, len |-> n]
    ELSE IF Head(s) = "="
         THEN IF quad_pos >= 2 /\ quad_pos + pads + 1 >= 4
              THEN [ok |-> TRUE, len |-> n]
              ELSE A2B(Tail(s), quad_pos,
                       IF quad_pos >= 2 THEN pads + 1 ELSE pads, n)
         ELSE IF Head(s) \notin B64Alphabet
              THEN A2B(Tail(s), quad_pos, pads, n)
              ELSE A2B(Tail(s), (quad_pos + 1) % 4, 0,
                       IF quad_pos = 0 THEN n ELSE n + 1)

b64decode(s) == A2B(s, 0, 0, 0)

(***************************************************************************)
(* Inputs: the requests and template files the calls are run on            *)
(***************************************************************************)
Endpoints == {"batch", "single", "test"}

\* The request fields that are read with data.get(key, "").strip().
TextFields ==
    {"sender_email", "app_password", "job_title", "subject", "name",
     "phone_number"}

\* A text field that is absent or empty, whitespace-only, or filled in
\* (a missing key reads as "" through the default of data.get).
FieldVals == {<<>>, <<" ">>, <<"v">>}

\* pdf_file payloads: absent/empty; only characters outside the alphabet;
\* truncated (bad padding); padded; unpadded; valid with a stray character.
PdfFiles ==
    { <<>>,
      <<"!">>,
      <<"A", "A">>,
      <<"A", "A", "=", "=">>,
      <<"A", "A", "A", "A">>,
      <<"A", "A", "A", "A", "!">> }

\* Recipient records: an address with a company, a padded address without
\* one, an absent/empty address, a whitespace-only address, and a record
\* whose company is JSON null.
RecipientSamples ==
    { [email |-> <<"a">>,      company |-> Str(<<"Acme">>)],
      [email |-> <<" ", "b">>, company |-> Str(<<>>)],
      [email |-> <<>>,         company |-> Str(<<"Acme">>)],
      [email |-> <<" ">>,      company |-> Str(<<>>)],
      [email |-> <<"a">>,      company |-> Null] }

RecipientLists ==
    UNION {[1..n -> RecipientSamples] : n \in 0..MaxRecipients}

\* The file at TEMPLATE_PATH: absent, present but unreadable, or present
\* with the named str.format placeholders in its text.
Templates ==
    { [state |-> "missing",    fields |-> {}],
      [state |-> "unreadable", fields |-> {}],
      [state |-> "ok", fields |-> {"greeting", "job_title"}],
      [state |-> "ok",
       fields |-> {"greeting", "job_title", "name", "phone_number", "email"}],
      [state |-> "ok", fields |-> {"greeting", "position"}] }

ValidData ==
    [ recipients   |-> <<>>,
      recipient    |-> [email |-> <<"a">>, company |-> Str(<<"Acme">>)],
      sender_email |-> <<"v">>,
      app_password |-> <<"v">>,
      job_title    |-> <<"v">>,
      subject      |-> <<"v">>,
      pdf_file     |-> <<"A", "A", "A", "A">>,
      name         |-> <<"v">>,
      phone_number |-> <<"v">> ]

\* The sender-side inputs of a request: a valid request with at most one of
\* its text fields or its attachment payload replaced.
SenderInputs ==
    {[ValidData EXCEPT ![f] = v] : f \in TextFields, v \in FieldVals}
    \cup {[ValidData EXCEPT !.pdf_file = p] : p \in PdfFiles}

\* batch-send reads data["recipients"]; single-send reads data["recipient"];
\* test-send reads data["email"] and data["company"], held in `recipient`.
Requests(ep) ==
    IF ep = "batch"
    THEN {[d EXCEPT !.recipients = rs] :
             d \in SenderInputs, rs \in RecipientLists}
    ELSE {[d EXCEPT !.recipient = r] :
             d \in SenderInputs, r \in RecipientSamples}

(***************************************************************************)
(* code_sender.py                                                          *)
(***************************************************************************)
\* RECIPIENTS, the module-level list (every entry is commented out).
RECIPIENTS == <<>>

\* validate_configuration(check_recipients): TRUE when it raises.
validate_configuration(check_recipients, tpl) ==
    \/ check_recipients /\ RECIPIENTS = <<>>
    \/ tpl.state = "missing"

\* load_email_template(TEMPLATE_PATH): raises when the file is absent or
\* cannot be read, else returns its text (here: its placeholders).
load_email_template(tpl) ==
    [raised |-> tpl.state # "ok", content |-> tpl.fields]

\* create_greeting(recipient): None has no strip(), so a null company raises.
create_greeting(recipient) ==
    IF recipient.company.type # "str"
    THEN [raised |-> TRUE, val |-> <<>>]
    ELSE LET company == Strip(recipient.company.val)
         IN  [raised |-> FALSE,
              val |-> IF company # <<>>
                      THEN company \o <<" Hiring Team">>
                      ELSE <<"Hiring Team">>]

\* email_template.format(**supplied): TRUE when it raises KeyError, which it
\* does for a placeholder of the template that no keyword supplies.
FormatRaises(content, supplied) == ~(content \subseteq supplied)

\* build_message(..., attachment_data=...): the parts of the MIME message.
\* attachment_data is the number of bytes; `if attachment_data:` is false for
\* b"".  No caller passes attachment_path, so the elif branch adds nothing.
build_message(sender, to_email, subject, attachment_data) ==
    [ From    |-> sender,
      To      |-> to_email,
      Subject |-> subject,
      parts   |-> <<"text/html">> \o
                  (IF attachment_data > 0
                   THEN <<"application/octet-stream">>
                   ELSE <<>>) ]

(***************************************************************************)
(* The relay: what its operations can do                                   *)
(***************************************************************************)
\* smtplib.SMTP(host, port): SMTPConnectError, or an OSError of the socket.
ConnectOutcomes == {"ok", "SMTPException", "Exception"}

\* smtp.ehlo(): SMTPServerDisconnected.
EhloOutcomes == {"ok", "SMTPException"}

\* smtp.starttls(): SMTPNotSupportedError/SMTPResponseException, or ssl.SSLError.
StartTlsOutcomes == {"ok", "SMTPException", "Exception"}

\* smtp.login(): SMTPAuthenticationError and the like.
LoginOutcomes == {"ok", "SMTPException"}

\* smtp.sendmail(): refused by the relay (SMTPException), or any other error.
SendOutcomes == {"ok", "SMTPException", "Exception"}

\* SMTP.__exit__: QUIT answered 221; answered otherwise, which raises
\* SMTPResponseException; or the server is gone, which is swallowed.
QuitOutcomes == {"221", "SMTPResponseException", "SMTPServerDisconnected"}

Event(op, ok, to, parts) == [op |-> op, ok |-> ok, to |-> to, parts |-> parts]

RelayEvent(op, ok) == Event(op, ok, <<>>, <<>>)

\* send_one(smtp, sender, recipient, subject, body, attachment_data=...):
\* builds the message and hands it to smtp.sendmail.
send_one(sender, recipient, subject, attachment_data, outcome) ==
    LET msg == build_message(sender, recipient, subject, attachment_data)
    IN  Event("sendmail", outcome = "ok", msg.To, msg.parts)

(***************************************************************************)
(* app.py: responses                                                       *)
(***************************************************************************)
NoResponse == [status |-> 0, body |-> [pending |-> TRUE]]

\* Mutant of ErrorResponse: every endpoint adds "success": False.
ErrorResponse_WithFlag(ep, status, msg) ==
    [status |-> status, body |-> [success |-> FALSE, error |-> msg]]

\* jsonify({...error...}), status: single-send adds "success": False,
\* batch-send and test-send return the bare {"error": ...}.
ErrorResponse(ep, status, msg) ==
    [ status |-> status,
      body   |-> IF ep = "single"
                 THEN [success |-> FALSE, error |-> msg]
                 ELSE [error |-> msg] ]

\* The success payload of single-send and test-send.
SentResponse ==
    [status |-> 200, body |-> [success |-> TRUE, message |-> "sent"]]

\* The aggregate payload of batch-send.
AggregateResponse(res, ok, failed, total) ==
    [ status |-> 200,
      body   |-> [ success |-> TRUE,
                   message |-> "Email sending completed",
                   results |-> res,
                   summary |-> [ successful |-> ok,
                                 failed     |-> failed,
                                 total      |-> total ] ] ]

\* The except clauses around the `with` block: batch-send answers an
\* SMTPException with "SMTP error" and leaves anything else to the outer
\* handler; single-send and test-send catch Exception.
HandlerError(ep, e) ==
    IF ep = "batch"
    THEN IF e = "SMTPException"
         THEN ErrorResponse(ep, 500, "SMTP error")
         ELSE ErrorResponse(ep, 500, "Unexpected error")
    ELSE ErrorResponse(ep, 500, "Failed to send email")

(***************************************************************************)
(* app.py: the checks before the relay is touched                          *)
(***************************************************************************)
NoError == [status |-> 0, error |-> ""]

Invalid(status, msg) == [status |-> status, error |-> msg]

\* Mutant of ToEmail: the address is not stripped.
ToEmail_NoStrip(recipient) == recipient.email

\* recipient.get("email", "").strip()
ToEmail(recipient) == Strip(recipient.email)

\* Mutant of RecipientCheck: only batch-send checks its recipients.
RecipientCheck_BatchOnly(ep, d) ==
    IF ep = "batch" /\ d.recipients = <<>>
    THEN Invalid(400, "No recipients provided") ELSE NoError

\* The first check of each handler: the recipients list, or the address.
RecipientCheck(ep, d) ==
    IF ep = "batch"
    THEN IF d.recipients = <<>>
         THEN Invalid(400, "No recipients provided") ELSE NoError
    ELSE IF ToEmail(d.recipient) = <<>>
         THEN Invalid(400, "Email address is required") ELSE NoError

\* The required text fields, in the order they are checked; test-send reads
\* neither name nor phone_number.
RequiredFields(ep) ==
    IF ep = "test"
    THEN <<"sender_email", "app_password", "job_title", "subject">>
    ELSE <<"sender_email", "app_password", "job_title", "subject",
           "name", "phone_number">>

\* `if not <field>` on the stripped value.
FieldCheck(d, f) ==
    IF Strip(d[f]) = <<>> THEN Invalid(400, f) ELSE NoError

\* `if not pdf_file_base64` (not stripped), checked after subject and before
\* name, then base64.b64decode inside its own try.
PdfCheck(d) ==
    IF d.pdf_file = <<>> THEN Invalid(400, "PDF file is required") ELSE NoError

DecodeCheck(d) ==
    IF ~b64decode(d.pdf_file).ok
    THEN Invalid(400, "Invalid PDF file data") ELSE NoError

ConfigCheck(tpl) ==
    IF validate_configuration(FALSE, tpl)
    THEN Invalid(500, "Configuration error")
    ELSE IF load_email_template(tpl).raised
         THEN Invalid(500, "Template loading error") ELSE NoError

\* The checks of a handler in source order.
Checks(ep, d, tpl) ==
    LET fs == RequiredFields(ep)
    IN  <<RecipientCheck(ep, d)>>
        \o [i \in 1..4 |-> FieldCheck(d, fs[i])]
        \o <<PdfCheck(d)>>
        \o [i \in 1..(Len(fs) - 4) |-> FieldCheck(d, fs[i + 4])]
        \o <<DecodeCheck(d), ConfigCheck(tpl)>>

RECURSIVE FirstError(_)
FirstError(cs) ==
    IF cs = <<>> THEN NoError
    ELSE IF Head(cs).status # 0 THEN Head(cs) ELSE FirstError(Tail(cs))

\* The first failing check of the handler, or NoError.
ValidationError(ep, d, tpl) == FirstError(Checks(ep, d, tpl))

\* The keywords each handler passes to email_template.format.
FormatKeywords(ep) ==
    IF ep = "test"
    THEN {"greeting", "job_title"}
    ELSE {"greeting", "job_title", "name", "phone_number", "email"}

\* create_greeting then email_template.format: TRUE when either raises.
RenderRaises(ep, recipient, tpl) ==
    \/ create_greeting(recipient).raised
    \/ FormatRaises(load_email_template(tpl).content, FormatKeywords(ep))

(***************************************************************************)
(* The call                                                                *)
(***************************************************************************)
Init ==
    /\ endpoint \in Endpoints
    /\ data \in Requests(endpoint)
    /\ template \in Templates
    /\ pc = "start"
    /\ smtp = "none"
    /\ pdf_data = 0
    /\ results = <<>>
    /\ successful_sends = 0
    /\ failed_sends = 0
    /\ idx = 1
    /\ exc = "none"
    /\ ret = NoResponse
    /\ response = NoResponse
    /\ events = <<>>

\* The handler up to the template load: the first failing check returns its
\* error response; otherwise the payload is decoded and the call goes on.
Validate ==
    /\ pc = "start"
    /\ LET err == ValidationError(endpoint, data, template)
       IN  IF err.status # 0
           THEN /\ response' = ErrorResponse(endpoint, err.status, err.error)
                /\ pc' = "done"
                /\ UNCHANGED pdf_data
           ELSE /\ pdf_data' = b64decode(data.pdf_file).len
                /\ pc' = IF endpoint = "batch" THEN "connect" ELSE "render"
                /\ UNCHANGED response
    /\ UNCHANGED <<endpoint, data, template, smtp, results, successful_sends,
                   failed_sends, idx, exc, ret, events>>

\* single-send and test-send build the greeting and the body before the
\* `with` block; an exception there reaches the outer handler.
Render ==
    /\ pc = "render"
    /\ IF RenderRaises(endpoint, data.recipient, template)
       THEN /\ response' = ErrorResponse(endpoint, 500, "Unexpected error")
            /\ pc' = "done"
       ELSE /\ pc' = "connect"
            /\ UNCHANGED response
    /\ UNCHANGED <<endpoint, data, template, smtp, pdf_data, results,
                   successful_sends, failed_sends, idx, exc, ret, events>>

\* smtplib.SMTP(SMTP_SERVER, SMTP_PORT): when the constructor raises, the
\* `with` block is never entered and the except clause answers.
Connect ==
    /\ pc = "connect"
    /\ \E o \in ConnectOutcomes :
          /\ events' = Append(events, RelayEvent("connect", o = "ok"))
          /\ IF o = "ok"
             THEN /\ smtp' = "connected"
                  /\ pc' = "ehlo"
                  /\ UNCHANGED response
             ELSE /\ response' = HandlerError(endpoint, o)
                  /\ pc' = "done"
                  /\ UNCHANGED smtp
    /\ UNCHANGED <<endpoint, data, template, pdf_data, results,
                   successful_sends, failed_sends, idx, exc, ret>>

\* One step of the handshake inside the `with` block: on success the call
\* moves to `next`, on an exception it leaves the block.
Handshake(op, outcomes, next, state) ==
    \E o \in outcomes :
       /\ events' = Append(events, RelayEvent(op, o = "ok"))
       /\ IF o = "ok"
          THEN /\ pc' = next
               /\ smtp' = state
               /\ UNCHANGED exc
          ELSE /\ pc' = "exit"
               /\ exc' = o
               /\ UNCHANGED smtp
       /\ UNCHANGED <<endpoint, data, template, pdf_data, results,
                      successful_sends, failed_sends, idx, ret, response>>

Ehlo ==
    /\ pc = "ehlo"
    /\ Handshake("ehlo", EhloOutcomes, "starttls", "connected")

StartTls ==
    /\ pc = "starttls"
    /\ Handshake("starttls", StartTlsOutcomes, "login", "connected")

\* Mutant of Login: an exception of smtp.login is swallowed.
Login_IgnoreFailure ==
    /\ pc = "login"
    /\ \E o \in LoginOutcomes :
          events' = Append(events, RelayEvent("login", o = "ok"))
    /\ pc' = IF endpoint = "batch" THEN "loop" ELSE "send"
    /\ smtp' = "authenticated"
    /\ UNCHANGED <<endpoint, data, template, pdf_data, results,
                   successful_sends, failed_sends, idx, exc, ret, response>>

Login ==
    /\ pc = "login"
    /\ Handshake("login", LoginOutcomes,
                 IF endpoint = "batch" THEN "loop" ELSE "send",
                 "authenticated")

\* The entry appended to `results` for one submission.
SendResult(to_email, outcome) ==
    [ email   |-> to_email,
      status  |-> IF outcome = "ok" THEN "success" ELSE "error",
      message |-> IF outcome = "ok" THEN "Email sent successfully"
                                    ELSE outcome ]

\* Mutant of Pause: the pause does not look at the length of the list.
Pause_Always(recipients) == <<RelayEvent("sleep", TRUE)>>

\* `if len(recipients) > 1: time.sleep(SEND_DELAY)` at the end of the loop
\* body: the events the pause adds.
Pause(recipients) ==
    IF Len(recipients) > 1 THEN <<RelayEvent("sleep", TRUE)>> ELSE <<>>

\* Mutant of Total: the skipped recipients are left out of the total.
Total_Addressed(recipients) ==
    Cardinality({i \in 1..Len(recipients) : Strip(recipients[i].email) # <<>>})

\* "total": len(recipients)
Total(recipients) == Len(recipients)

\* for recipient in recipients: an address that is empty after strip()
\* takes `continue`, past the send and past the pause.
LoopSkip ==
    /\ pc = "loop"
    /\ idx <= Len(data.recipients)
    /\ ToEmail(data.recipients[idx]) = <<>>
    /\ idx' = idx + 1
    /\ UNCHANGED <<endpoint, data, template, pc, smtp, pdf_data, results,
                   successful_sends, failed_sends, exc, ret, response,
                   events>>

\* create_greeting and email_template.format run outside the per-recipient
\* try: an exception there leaves the loop and the `with` block.
LoopRaise ==
    /\ pc = "loop"
    /\ idx <= Len(data.recipients)
    /\ ToEmail(data.recipients[idx]) # <<>>
    /\ RenderRaises(endpoint, data.recipients[idx], template)
    /\ exc' = "Exception"
    /\ pc' = "exit"
    /\ UNCHANGED <<endpoint, data, template, smtp, pdf_data, results,
                   successful_sends, failed_sends, idx, ret, response,
                   events>>

\* Mutant of LoopSend: a failed submission is not caught per recipient; it
\* leaves the loop and the `with` block.
LoopSend_AbortOnFailure ==
    /\ pc = "loop"
    /\ idx <= Len(data.recipients)
    /\ ToEmail(data.recipients[idx]) # <<>>
    /\ ~RenderRaises(endpoint, data.recipients[idx], template)
    /\ \E o \in SendOutcomes :
          LET to_email == ToEmail(data.recipients[idx])
          IN  /\ events' = events
                    \o <<send_one(Strip(data.sender_email), to_email,
                                  Strip(data.subject), pdf_data, o)>>
                    \o (IF o = "ok" THEN Pause(data.recipients) ELSE <<>>)
              /\ IF o = "ok"
                 THEN /\ results' = Append(results, SendResult(to_email, o))
                      /\ successful_sends' = successful_sends + 1
                      /\ idx' = idx + 1
                      /\ UNCHANGED <<pc, exc>>
                 ELSE /\ exc' = o
                      /\ pc' = "exit"
                      /\ UNCHANGED <<results, successful_sends, idx>>
    /\ UNCHANGED <<endpoint, data, template, smtp, pdf_data, failed_sends,
                   ret, response>>

\* The per-recipient try: send_one, then the success or the error entry,
\* then the pause; the loop goes on in both cases.
LoopSend ==
    /\ pc = "loop"
    /\ idx <= Len(data.recipients)
    /\ ToEmail(data.recipients[idx]) # <<>>
    /\ ~RenderRaises(endpoint, data.recipients[idx], template)
    /\ \E o \in SendOutcomes :
          LET to_email == ToEmail(data.recipients[idx])
          IN  /\ events' = events
                    \o <<send_one(Strip(data.sender_email), to_email,
                                  Strip(data.subject), pdf_data, o)>>
                    \o Pause(data.recipients)
              /\ results' = Append(results, SendResult(to_email, o))
              /\ successful_sends' =
                     IF o = "ok" THEN successful_sends + 1
                                 ELSE successful_sends
              /\ failed_sends' =
                     IF o = "ok" THEN failed_sends ELSE failed_sends + 1
    /\ idx' = idx + 1
    /\ UNCHANGED <<endpoint, data, template, pc, smtp, pdf_data, exc, ret,
                   response>>

\* The `return jsonify(...)` after the loop, still inside the `with` block.
LoopReturn ==
    /\ pc = "loop"
    /\ idx > Len(data.recipients)
    /\ ret' = AggregateResponse(results, successful_sends, failed_sends,
                                Total(data.recipients))
    /\ pc' = "exit"
    /\ UNCHANGED <<endpoint, data, template, smtp, pdf_data, results,
                   successful_sends, failed_sends, idx, exc, response,
                   events>>

\* single-send and test-send: one send_one, then the return.
SendSingle ==
    /\ pc = "send"
    /\ \E o \in SendOutcomes :
          /\ events' = Append(events,
                 send_one(Strip(data.sender_email), ToEmail(data.recipient),
                          Strip(data.subject), pdf_data, o))
          /\ IF o = "ok"
             THEN ret' = SentResponse /\ UNCHANGED exc
             ELSE exc' = o /\ UNCHANGED ret
    /\ pc' = "exit"
    /\ UNCHANGED <<endpoint, data, template, smtp, pdf_data, results,
                   successful_sends, failed_sends, idx, response>>

\* The events of SMTP.__exit__: QUIT, then close() in its finally clause.
Teardown(q) == <<RelayEvent("quit", q = "221"), RelayEvent("close", TRUE)>>

\* Mutant of Exit: the session is torn down only when the block ended
\* without an exception.
Exit_NoCloseOnError ==
    /\ pc = "exit"
    /\ IF exc = "none"
       THEN /\ events' = events \o Teardown("221")
            /\ smtp' = "closed"
            /\ response' = ret
       ELSE /\ response' = HandlerError(endpoint, exc)
            /\ UNCHANGED <<events, smtp>>
    /\ pc' = "done"
    /\ UNCHANGED <<endpoint, data, template, pdf_data, results,
                   successful_sends, failed_sends, idx, exc, ret>>

\* Leaving the `with` block: __exit__ sends QUIT and closes the socket; an
\* SMTPResponseException it raises replaces the pending exception or return
\* value.  Then the except clauses, or the return value, answer the call.
Exit ==
    /\ pc = "exit"
    /\ \E q \in QuitOutcomes :
          LET e == IF q = "SMTPResponseException" THEN "SMTPException" ELSE exc
          IN  /\ events' = events \o Teardown(q)
              /\ response' = IF e = "none" THEN ret
                             ELSE HandlerError(endpoint, e)
    /\ smtp' = "closed"
    /\ pc' = "done"
    /\ UNCHANGED <<endpoint, data, template, pdf_data, results,
                   successful_sends, failed_sends, idx, exc, ret>>

Next ==
    \/ Validate
    \/ Render
    \/ Connect
    \/ Ehlo
    \/ StartTls
    \/ Login
    \/ LoopSkip
    \/ LoopRaise
    \/ LoopSend
    \/ LoopReturn
    \/ SendSingle
    \/ Exit

Spec == Init /\ [][Next]_vars

(***************************************************************************)
(* Reading the history                                                     *)
(***************************************************************************)
\* The positions of `events` that hold operation op.
Ops(op) == {i \in 1..Len(events) : events[i].op = op}

IsSendmail(e) == e.op = "sendmail"

\* The submissions of the call, in the order they were made.
Sendmails == SelectSeq(events, IsSendmail)

\* The response carries a results array / an error text.
IsAggregate(r) == "results" \in DOMAIN r.body

IsError(r) == "error" \in DOMAIN r.body

\* A recipient whose address is non-empty after trimming.
Addressed(r) == Strip(r.email) # <<>>

\* The recipients the loop has gone past.
Processed == SubSeq(data.recipients, 1, idx - 1)

\* Some step of opening the relay session failed.
OpenFailed ==
    \E i \in 1..Len(events) :
       /\ events[i].op \in {"connect", "ehlo", "starttls", "login"}
       /\ ~events[i].ok

\* The session was authenticated.
Authenticated ==
    \E i \in Ops("login") : events[i].ok

CountStatus(rs, st) == Cardinality({k \in 1..Len(rs) : rs[k].status = st})

(***************************************************************************)
(* C1: in a batch-send call the results hold exactly one entry per         *)
(* recipient whose address is non-empty after trimming and none for the    *)
(* others, at every point of the loop and in the returned results list:    *)
(* the number of results is the number of such recipients.                 *)
(***************************************************************************)
C1_OneResultPerAddressedRecipient ==
    endpoint = "batch" =>
       LET addressed == SelectSeq(Processed, Addressed)
       IN  /\ Len(results) =
                 Cardinality({i \in 1..(idx - 1) :
                                 Strip(data.recipients[i].email) # <<>>})
           /\ Len(results) = Len(addressed)
           /\ \A k \in 1..Len(results) :
                 results[k].email = Strip(addressed[k].email)
           /\ IsAggregate(response) =>
                 /\ idx = Len(data.recipients) + 1
                 /\ response.body.results = results

\* C1 witness: a returned results list for three recipients of which one was
\* skipped for a whitespace-only address.
C1_Witness ==
    /\ endpoint = "batch"
    /\ pc = "done"
    /\ IsAggregate(response)
    /\ Len(data.recipients) = 3
    /\ \E i \in 1..3 : data.recipients[i].email = <<" ">>
    /\ Len(response.body.results) = 2

(***************************************************************************)
(* C2: in a batch-send call a failed submission is recorded as that        *)
(* recipient's error result and the batch goes on: the loop is left early  *)
(* only by an exception of building the greeting or the body, never by a   *)
(* submission; the results are in input order, one per submission, each    *)
(* with the address and the status of its own submission.                  *)
(***************************************************************************)
C2_FailureIsContained ==
    endpoint = "batch" =>
       LET addressed == SelectSeq(Processed, Addressed)
       IN  /\ Len(Sendmails) = Len(addressed)
           /\ Len(results) = Len(Sendmails)
           /\ \A k \in 1..Len(results) :
                 /\ Sendmails[k].to = Strip(addressed[k].email)
                 /\ results[k].email = Sendmails[k].to
                 /\ results[k].status =
                       IF Sendmails[k].ok THEN "success" ELSE "error"
           /\ (Authenticated /\ pc \in {"exit", "done"}) =>
                 \/ idx = Len(data.recipients) + 1
                 \/ /\ idx <= Len(data.recipients)
                    /\ RenderRaises(endpoint, data.recipients[idx], template)
           /\ (pc = "done" /\ IsAggregate(response)) =>
                 /\ idx = Len(data.recipients) + 1
                 /\ response.body.results = results

\* C2 witness: three recipients, the second submission failed, the response
\* lists success, error, success with summary 2, 1, 3.
C2_Witness ==
    /\ endpoint = "batch"
    /\ pc = "done"
    /\ IsAggregate(response)
    /\ Len(data.recipients) = 3
    /\ Len(response.body.results) = 3
    /\ response.body.results[1].status = "success"
    /\ response.body.results[2].status = "error"
    /\ response.body.results[3].status = "success"
    /\ response.body.summary =
          [successful |-> 2, failed |-> 1, total |-> 3]

(***************************************************************************)
(* C3: in a batch-send call, once a step of opening the relay session      *)
(* (connect, greeting, TLS upgrade, authentication) has failed, nothing is *)
(* submitted, no result is produced, no step of the open is run again, and *)
(* the call answers with a single error and no results array.              *)
(***************************************************************************)
C3_OpenFailureIsFatal ==
    (endpoint = "batch" /\ OpenFailed) =>
       /\ Ops("sendmail") = {}
       /\ Ops("sleep") = {}
       /\ results = <<>>
       /\ \A op \in {"connect", "ehlo", "starttls", "login"} :
             Cardinality(Ops(op)) <= 1
       /\ \A i \in 1..Len(events) :
             ~events[i].ok =>
                \A j \in (i + 1)..Len(events) :
                   events[j].op \in {"quit", "close"}
       /\ pc \in {"exit", "done"}
       /\ pc = "done" =>
             /\ IsError(response)
             /\ ~IsAggregate(response)
             /\ response.status = 500

\* C3 witness: a batch call with recipients answered after its login failed.
C3_Witness ==
    /\ endpoint = "batch"
    /\ pc = "done"
    /\ \E i \in Ops("login") : ~events[i].ok
    /\ \E i \in 1..Len(data.recipients) : Addressed(data.recipients[i])

(***************************************************************************)
(* C4: on every endpoint, when a required field (sender email, app         *)
(* password, job title, subject, attachment payload, and name and phone    *)
(* number on batch-send and single-send) is missing or empty, or the       *)
(* attachment encoding is malformed, or the template file is missing, the  *)
(* call answers with an error, opens no relay connection and submits       *)
(* nothing.                                                                *)
(***************************************************************************)
\* Canonical base64: a multiple of four characters of the alphabet, the
\* last one or two of which may be pads.
WellFormedBase64(s) ==
    /\ Len(s) % 4 = 0
    /\ \A i \in 1..Len(s) :
          \/ s[i] \in B64Alphabet
          \/ /\ s[i] = "="
             /\ i >= Len(s) - 1
             /\ \A j \in i..Len(s) : s[j] = "="

RequiredFieldEmpty ==
    \/ data.pdf_file = <<>>
    \/ \E i \in 1..Len(RequiredFields(endpoint)) :
          data[RequiredFields(endpoint)[i]] = <<>>

C4_InvalidRequestTouchesNoRelay ==
    (\/ RequiredFieldEmpty
     \/ ~WellFormedBase64(data.pdf_file)
     \/ template.state = "missing") =>
       /\ events = <<>>
       /\ pc = "done" => IsError(response)

(***************************************************************************)
(* C5 as stated: on every endpoint a request containing a recipient whose  *)
(* address is missing or empty is rejected with a validation error and no  *)
(* relay connection is opened.                                             *)
(***************************************************************************)
RequestRecipients ==
    IF endpoint = "batch" THEN data.recipients ELSE <<data.recipient>>

C5_EmptyAddressRejectsRequest ==
    (\E i \in 1..Len(RequestRecipients) : ~Addressed(RequestRecipients[i])) =>
       /\ events = <<>>
       /\ pc = "done" => (IsError(response) /\ response.status = 400)

(***************************************************************************)
(* C5 amended: single-send and test-send reject a request whose recipient  *)
(* address is missing or empty after trimming, and batch-send rejects a    *)
(* request whose recipients list is missing or empty, each with a          *)
(* validation error and without opening a relay connection; a batch        *)
(* recipient whose address is missing or empty is not rejected but passed  *)
(* over: nothing is submitted to it and no result names it.                *)
(***************************************************************************)
C5_AddressValidation ==
    /\ (endpoint # "batch" /\ ~Addressed(data.recipient)) =>
          /\ events = <<>>
          /\ pc \in {"start", "done"}
          /\ pc = "done" =>
                (/\ IsError(response)
                 /\ response.status = 400
                 /\ response.body.error = "Email address is required")
    /\ (endpoint = "batch" /\ data.recipients = <<>>) =>
          /\ events = <<>>
          /\ pc \in {"start", "done"}
          /\ pc = "done" =>
                (/\ IsError(response)
                 /\ response.status = 400
                 /\ response.body.error = "No recipients provided")
    /\ endpoint = "batch" =>
          /\ \A i \in Ops("sendmail") : Strip(events[i].to) # <<>>
          /\ \A k \in 1..Len(results) : Strip(results[k].email) # <<>>

\* C5 witness: single-send or test-send answered for a whitespace-only
\* address in an otherwise valid request.
C5_Witness ==
    /\ endpoint # "batch"
    /\ pc = "done"
    /\ data.recipient.email = <<" ">>
    /\ data.pdf_file = ValidData.pdf_file
    /\ \A f \in TextFields : data[f] = ValidData[f]
    /\ template.state = "ok"
    /\ response.status = 400

(***************************************************************************)
(* C6: a batch-send call opens at most one relay session and authenticates *)
(* at most once; every submission is made after the successful             *)
(* authentication and before the session is closed; and a session that was *)
(* opened is closed when the call has answered, whether the loop ran to    *)
(* its end, submissions failed, or the handshake failed partway.           *)
(***************************************************************************)
C6_OneSessionAlwaysClosed ==
    endpoint = "batch" =>
       /\ Cardinality(Ops("connect")) <= 1
       /\ Cardinality(Ops("login")) <= 1
       /\ Cardinality(Ops("close")) <= 1
       /\ \A i \in Ops("sendmail") :
             /\ \E j \in 1..(i - 1) : events[j].op = "login" /\ events[j].ok
             /\ \A j \in 1..(i - 1) : events[j].op \notin {"quit", "close"}
       /\ \A i \in Ops("connect") \cup Ops("login") :
             \A j \in 1..(i - 1) : events[j].op \notin {"quit", "close"}
       /\ (pc = "done" /\ \E i \in Ops("connect") : events[i].ok) =>
             /\ Ops("close") # {}
             /\ smtp = "closed"

\* C6 witness: a batch call answered after a submission failed and a later
\* recipient's greeting raised, its session closed.
C6_Witness ==
    /\ endpoint = "batch"
    /\ pc = "done"
    /\ \E i \in Ops("sendmail") : ~events[i].ok
    /\ idx <= Len(data.recipients)
    /\ events[Len(events)].op = "close"

(***************************************************************************)
(* C7: in the aggregate result of a batch-send call, total is the length   *)
(* of the input list, skipped recipients included; successful and failed   *)
(* are the numbers of success and of error results; skipped recipients are *)
(* in neither, so successful + failed = number of results <= total.        *)
(***************************************************************************)
C7_SummaryCounts ==
    (endpoint = "batch" /\ IsAggregate(response)) =>
       LET body == response.body
       IN  /\ body.summary.total = Len(data.recipients)
           /\ body.summary.successful = CountStatus(body.results, "success")
           /\ body.summary.failed = CountStatus(body.results, "error")
           /\ body.summary.successful + body.summary.failed
                 = Len(body.results)
           /\ Len(body.results) <= body.summary.total
           /\ Len(body.results) =
                 Cardinality({i \in 1..Len(data.recipients) :
                                 Addressed(data.recipients[i])})

\* C7 witness: an aggregate with a success, an error and a skipped recipient.
C7_Witness ==
    /\ endpoint = "batch"
    /\ pc = "done"
    /\ IsAggregate(response)
    /\ response.body.summary = [successful |-> 1, failed |-> 1, total |-> 3]
    /\ \E i \in 1..Len(data.recipients) : ~Addressed(data.recipients[i])

(***************************************************************************)
(* C8: in a batch-send call whose input list has more than one recipient   *)
(* the pause follows every submission, successful or failed, the last one  *)
(* included, and nothing else; with exactly one recipient there is no      *)
(* pause; a skipped recipient incurs none; single-send and test-send never *)
(* pause.                                                                  *)
(***************************************************************************)
C8_PauseAfterEverySubmission ==
    /\ endpoint # "batch" => Ops("sleep") = {}
    /\ endpoint = "batch" =>
          IF Len(data.recipients) > 1
          THEN /\ \A i \in Ops("sendmail") :
                     i < Len(events) /\ events[i + 1].op = "sleep"
               /\ \A i \in Ops("sleep") :
                     i > 1 /\ events[i - 1].op = "sendmail"
               /\ Cardinality(Ops("sleep")) = Len(results)
          ELSE Ops("sleep") = {}

\* C8 witness: a batch of several recipients, one of them skipped, whose
\* last submission failed and was still followed by the pause.
C8_Witness ==
    /\ endpoint = "batch"
    /\ pc = "done"
    /\ IsAggregate(response)
    /\ Len(data.recipients) = 3
    /\ ~Addressed(data.recipients[2])
    /\ Addressed(data.recipients[3])
    /\ Len(events) >= 4
    /\ events[Len(events) - 1].op = "quit"
    /\ events[Len(events) - 2].op = "sleep"
    /\ events[Len(events) - 3].op = "sendmail"
    /\ ~events[Len(events) - 3].ok
    /\ Cardinality(Ops("sleep")) = 2

(***************************************************************************)
(* C9: every message submitted by any endpoint holds the HTML body part    *)
(* and exactly one binary attachment part (a request reaches a submission  *)
(* only with its attachment payload present and non-empty).                *)
(***************************************************************************)
C9_ExactlyOneAttachment ==
    \A i \in Ops("sendmail") :
       events[i].parts = <<"text/html", "application/octet-stream">>

(***************************************************************************)
(* C10 as stated: every response of the test-send endpoint, on success and *)
(* on every failure path, carries a boolean success flag and a message,    *)
(* and never a results array.                                              *)
(***************************************************************************)
C10_TestSendAlwaysFlagAndMessage ==
    (endpoint = "test" /\ pc = "done") =>
       /\ {"success", "message"} \subseteq DOMAIN response.body
       /\ "results" \notin DOMAIN response.body

(***************************************************************************)
(* C10 amended: the test-send endpoint reports a true success flag plus a  *)
(* message on success, and on every failure path an error text alone, with *)
(* no success flag and no message; it never reports a results array.       *)
(***************************************************************************)
C10_TestSendResponseShape ==
    (endpoint = "test" /\ pc = "done") =>
       /\ "results" \notin DOMAIN response.body
       /\ IF response.status = 200
          THEN /\ DOMAIN response.body = {"success", "message"}
               /\ response.body.success = TRUE
               /\ \E i \in Ops("sendmail") : events[i].ok
          ELSE /\ DOMAIN response.body = {"error"}
               /\ response.status \in {400, 500}

\* C10 witness: test-send answered after the relay refused its message.
C10_Witness ==
    /\ endpoint = "test"
    /\ pc = "done"
    /\ \E i \in Ops("sendmail") : ~events[i].ok
    /\ response.status = 500

(***************************************************************************)
(* C11: once a batch-send call has authenticated its relay session it runs *)
(* to completion: when it has answered, every recipient whose address is   *)
(* non-empty has had exactly one submission, in input order and with no    *)
(* retry, the answer is the aggregate result, and in any case the answer   *)
(* is a structured response.                                               *)
(***************************************************************************)
C11_BatchRunsToCompletion ==
    (endpoint = "batch" /\ Authenticated /\ pc = "done") =>
       LET addressed == SelectSeq(data.recipients, Addressed)
       IN  /\ Len(Sendmails) = Len(addressed)
           /\ \A k \in 1..Len(Sendmails) :
                 Sendmails[k].to = Strip(addressed[k].email)
           /\ IsAggregate(response)
           /\ response.status = 200

(***************************************************************************)
(* C12: a batch-send call that answers with a batch-level error (an error  *)
(* payload without a results array) has submitted no message to the relay; *)
(* once a message has been submitted the call can only answer with the     *)
(* aggregate result.                                                       *)
(***************************************************************************)
C12_BatchErrorMeansNothingSubmitted ==
    (endpoint = "batch" /\ pc = "done" /\ ~IsAggregate(response)) =>
       Ops("sendmail") = {}

====
